---- MODULE Spec2Model ----
(***************************************************************************)
(* A model of the GitHub registry of ksonnet (pkg/registry/github.go) and  *)
(* of the GitHub client it talks to (pkg/util/github).                     *)
(*                                                                         *)
(* State: the cache on disk, the registry's descriptor, the commit each    *)
(* upstream branch points at, and a record of the last call with the trace *)
(* of every transport, filesystem and handler call it made.                *)
(*                                                                         *)
(* Spec is the registry at work: FetchRegistrySpec, ResolveLibrary and     *)
(* ResolveLibrarySpec calls with upstream pushes between them. SpecParse   *)
(* applies parseGitHubURI to a pool of URIs, and SpecURI constructs a      *)
(* registry and sets its URI. A run-time panic is an outcome of its own,   *)
(* beside a result and an error.                                           *)
(***************************************************************************)
EXTENDS Integers, Sequences, FiniteSets, TLC

VARIABLES fs, hd, head, last, prev, uri, baseURL, pin, pout, pd, pdOut

vars == <<fs, hd, head, last, prev, uri, baseURL, pin, pout, pd, pdOut>>

\* the configured URI of the registry (gh.spec.URI), the API root of the
\* transport client (dg.baseURL), and the argument and the outcome of the
\* last call that takes a URI
uriVars == <<uri, baseURL, pin, pout>>

\* the ParamDelete action NewParamDelete has made, and what its last Run did
paramVars == <<pd, pdOut>>

----------------------------------------------------------------------------
(* Bounds of the model *)

\* number of library names an inventory may list
MaxLibs == 2

\* a fault can be put at the 1st .. MaxFail-th Contents or handler call of a call
MaxFail == 5

\* how many directories a URI in the pool names below the reference
MaxDirs == 2

----------------------------------------------------------------------------
(* Values *)

LibNames == {"apache", "nginx", "redis"}

LibPool == IF MaxLibs >= 3 THEN LibNames
           ELSE IF MaxLibs = 2 THEN {"apache", "nginx"}
           ELSE {"apache"}

\* commit identifiers the upstream repository has
Shas == {"c1", "c2"}

\* branches of the upstream repository
Branches == {"master"}

\* strings the code takes apart are sequences of characters
registryYAMLFile == <<"r", "e", "g", "i", "s", "t", "r", "y", ".", "y", "a", "m", "l">>

partsYAMLFile == <<"p", "a", "r", "t", "s", ".", "y", "a", "m", "l">>

\* the version string a manifest carries before it is stamped
RawVersion == "0.0.1"

\* errors are the chain of messages, outermost first; nil is the empty chain
NoErr == <<>>

NewErr(msg) == <<msg>>

\* github.com/pkg/errors Wrapf: nil stays nil
Wrapf(err, msg) == IF err = NoErr THEN NoErr ELSE <<msg>> \o err

NoLibs == [n \in {} |-> ""]

\* *Spec: a nil pointer or an inventory
NilSpec == [nil |-> TRUE, Version |-> "", Libraries |-> NoLibs]

MkSpec(version, libs) == [nil |-> FALSE, Version |-> version, Libraries |-> libs]

\* the inventories the remote manifest may deserialize to
RemoteSpecs ==
  { MkSpec(v, [n \in S |-> RawVersion]) : v \in {"", "c1"}, S \in SUBSET LibPool }

\* the cache file
AbsentFile == [kind |-> "absent", spec |-> NilSpec]

CorruptFile == [kind |-> "corrupt", spec |-> NilSpec]

SpecFile(s) == [kind |-> "spec", spec |-> s]

\* one call made by an operation
Event(call, path, ref) == [call |-> call, path |-> path, ref |-> ref, ctx |-> "none"]

\* a call of the transport, with the context it is made under: "WithTimeout"
\* (context.WithTimeout) or "Background" (context.Background())
TransportCall(call, path, ref, ctx) == [Event(call, path, ref) EXCEPT !.ctx = ctx]

Count(trace, call) == Cardinality({i \in 1..Len(trace) : trace[i].call = call})

----------------------------------------------------------------------------
(* The transport: defaultGitHub *)

\* defaultGitHub.CommitSHA1: an empty refSpec means master; a commit
\* identifier resolves to itself, a branch to the commit it points at.
\* co is what the API does: "ok", "err" (an error) or "empty" (no
\* identifier and no error)
CommitSHA1(hds, refSpec, co) ==
  LET r == IF refSpec = "" THEN "master" ELSE refSpec
  IN  IF co = "err" THEN [sha |-> "", err |-> NewErr("api")]
      ELSE IF co = "empty" THEN [sha |-> "", err |-> NoErr]
      ELSE [sha |-> IF r \in Shas THEN r ELSE hds[r], err |-> NoErr]

----------------------------------------------------------------------------
(* The registry cache manager *)

\* load: the cached inventory, whether it exists, and an error
load(f) ==
  IF f.file.kind = "spec"
    THEN [spec |-> f.file.spec, exists |-> TRUE, err |-> NoErr]
    ELSE IF f.file.kind = "corrupt"
      THEN [spec |-> NilSpec, exists |-> FALSE, err |-> NewErr("load")]
      ELSE [spec |-> NilSpec, exists |-> FALSE, err |-> NoErr]

\* GitHub.resolveLatestSHA, with gh.hd set
resolveLatestSHA(d, hds, co) ==
  LET r == CommitSHA1(hds, d.refSpec, co)
  IN  [sha   |-> IF r.err /= NoErr THEN "" ELSE r.sha,
       err   |-> Wrapf(r.err, "unable to find SHA1 for URI"),
       trace |-> <<TransportCall("CommitSHA1", <<>>, d.refSpec, "WithTimeout")>>]

updateLibVersions_noop(spec, version) == spec

updateLibVersions(spec, version) ==
  IF spec.nil THEN spec
  ELSE [spec EXCEPT !.Libraries = [n \in DOMAIN spec.Libraries |-> version]]

fetchRemoteSpec_noStamp(cs, fo, m) ==
  LET ev == <<TransportCall("Contents", cs.Path, cs.RefSpec, "Background")>>
  IN  IF fo = "err" THEN [spec |-> NilSpec, err |-> NewErr("api"), trace |-> ev]
      ELSE IF fo = "nofile"
        THEN [spec |-> NilSpec, err |-> NewErr("Could not find valid registry"), trace |-> ev]
      ELSE IF fo = "badcontent"
        THEN [spec |-> NilSpec, err |-> NewErr("content"), trace |-> ev]
      ELSE IF fo = "badyaml"
        THEN [spec |-> NilSpec, err |-> NewErr("unmarshal"), trace |-> ev]
      ELSE [spec |-> m, err |-> NoErr, trace |-> ev]

\* GitHub.fetchRemoteSpec; fo is what comes back: "ok" with the manifest m,
\* "err", "nofile" (not a file), "badcontent" or "badyaml"
fetchRemoteSpec(cs, fo, m) ==
  LET ev == <<TransportCall("Contents", cs.Path, cs.RefSpec, "Background")>>
  IN  IF fo = "err" THEN [spec |-> NilSpec, err |-> NewErr("api"), trace |-> ev]
      ELSE IF fo = "nofile"
        THEN [spec |-> NilSpec, err |-> NewErr("Could not find valid registry"), trace |-> ev]
      ELSE IF fo = "badcontent"
        THEN [spec |-> NilSpec, err |-> NewErr("content"), trace |-> ev]
      ELSE IF fo = "badyaml"
        THEN [spec |-> NilSpec, err |-> NewErr("unmarshal"), trace |-> ev]
      ELSE [spec |-> [m EXCEPT !.Version = cs.RefSpec], err |-> NoErr, trace |-> ev]

\* line 195: is there no cached inventory to fall back on
noUsableCache(registrySpec, cachedVersion) == registrySpec.nil \/ cachedVersion = ""

\* line 202: the version the fallback stamps on the libraries
fallbackVersion_cached(d, cachedVersion) == cachedVersion

fallbackVersion(d, cachedVersion) == d.refSpec

cacheIsCurrent_never(exists, cachedVersion, sha) == FALSE

cacheIsCurrent_exists(exists, cachedVersion, sha) == exists

\* line 207: is the cache still current
cacheIsCurrent(exists, cachedVersion, sha) == exists /\ cachedVersion = sha

\* the result of a FetchRegistrySpec call
FetchResult(ret, spec, err, f, sha, trace) ==
  [ret |-> ret, spec |-> spec, err |-> err, fs |-> f, sha |-> sha, trace |-> trace]

\* lines 233-253: serialize, create the cache directory, write the cache
\* file; po is what fails: nothing ("ok"), Marshal, MkdirAll, or WriteFile
\* with the file untouched ("writeerr") or cut short ("writetrunc")
persist(f, registrySpec, sha, trace, po) ==
  IF po = "marshalerr"
    THEN FetchResult(236, NilSpec, NewErr("marshal"), f, sha, trace)
  ELSE IF po = "mkdirerr"
    THEN FetchResult(245, NilSpec, NewErr("mkdir"), f, sha,
                     trace \o <<Event("MkdirAll", <<>>, "")>>)
  ELSE LET tr == trace \o <<Event("MkdirAll", <<>>, ""), Event("WriteFile", <<>>, "")>>
       IN  IF po = "writeerr"
             THEN FetchResult(250, NilSpec, NewErr("write"),
                              [f EXCEPT !.dir = TRUE], sha, tr)
           ELSE IF po = "writetrunc"
             THEN FetchResult(250, NilSpec, NewErr("write"),
                              [dir |-> TRUE, file |-> CorruptFile], sha, tr)
           ELSE FetchResult(253, registrySpec, NoErr,
                            [dir |-> TRUE, file |-> SpecFile(registrySpec)], sha, tr)


fresh_mkdirFirst(f, d, sha, trace, fo, m, po) ==
  LET cs == [Path |-> d.regSpecRepoPath, RefSpec |-> sha]
      f1 == [f EXCEPT !.dir = TRUE]
      r  == fetchRemoteSpec(cs, fo, m)
      tr == trace \o <<Event("MkdirAll", <<>>, "")>> \o r.trace
  IN  IF r.err /= NoErr
        THEN FetchResult(229, NilSpec, r.err, f1, sha, tr)
        ELSE persist(f1, updateLibVersions(r.spec, sha), sha, tr, po)

\* lines 219-253: abandon the cache and fetch from the remote
fresh(f, d, sha, trace, fo, m, po) ==
  LET cs == [Path |-> d.regSpecRepoPath, RefSpec |-> sha]
      r  == fetchRemoteSpec(cs, fo, m)
  IN  IF r.err /= NoErr
        THEN FetchResult(229, NilSpec, r.err, f, sha, trace \o r.trace)
        ELSE persist(f, updateLibVersions(r.spec, sha), sha, trace \o r.trace, po)

FetchRegistrySpec_loadFatal(f, d, hds, co, fo, m, po) ==
  LET l             == load(f)
      registrySpec  == l.spec
      exists        == l.exists
      cachedVersion == IF ~registrySpec.nil THEN registrySpec.Version ELSE ""
      r             == resolveLatestSHA(d, hds, co)
      tr            == <<Event("load", <<>>, "")>> \o r.trace
  IN  IF l.err /= NoErr
        THEN FetchResult(182, NilSpec, l.err, f, "", <<Event("load", <<>>, "")>>)
      ELSE IF r.err /= NoErr \/ r.sha = ""
        THEN LET errMsg == Wrapf(r.err, "unable to resolve commit for refspec")
             IN  IF noUsableCache(registrySpec, cachedVersion)
                   THEN FetchResult(197, NilSpec, errMsg, f, r.sha, tr)
                   ELSE FetchResult(203,
                          updateLibVersions(registrySpec, fallbackVersion(d, cachedVersion)),
                          NoErr, f, r.sha, tr)
      ELSE IF cacheIsCurrent(exists, cachedVersion, r.sha)
        THEN FetchResult(210, updateLibVersions(registrySpec, r.sha), NoErr, f, r.sha, tr)
      ELSE fresh(f, d, r.sha, tr, fo, m, po)

\* GitHub.FetchRegistrySpec
FetchRegistrySpec(f, d, hds, co, fo, m, po) ==
  LET l             == load(f)
      registrySpec  == l.spec
      exists        == IF l.err /= NoErr THEN FALSE ELSE l.exists
      cachedVersion == IF ~registrySpec.nil THEN registrySpec.Version ELSE ""
      r             == resolveLatestSHA(d, hds, co)
      tr            == <<Event("load", <<>>, "")>> \o r.trace
  IN  IF r.err /= NoErr \/ r.sha = ""
        THEN LET errMsg == Wrapf(r.err, "unable to resolve commit for refspec")
             IN  IF noUsableCache(registrySpec, cachedVersion)
                   THEN FetchResult(197, NilSpec, errMsg, f, r.sha, tr)
                   ELSE FetchResult(203,
                          updateLibVersions(registrySpec, fallbackVersion(d, cachedVersion)),
                          NoErr, f, r.sha, tr)
      ELSE IF cacheIsCurrent(exists, cachedVersion, r.sha)
        THEN FetchResult(210, updateLibVersions(registrySpec, r.sha), NoErr, f, r.sha, tr)
      ELSE fresh(f, d, r.sha, tr, fo, m, po)

----------------------------------------------------------------------------
(* Strings *)

HasPrefix(s, p) == Len(s) >= Len(p) /\ SubSeq(s, 1, Len(p)) = p

TrimPrefix(s, p) == IF HasPrefix(s, p) THEN SubSeq(s, Len(p) + 1, Len(s)) ELSE s

\* strings.Join of two elements with "/"
Join2(a, b) == a \o <<"/">> \o b

----------------------------------------------------------------------------
(* The upstream repository, as the contents API shows it *)

regDir == <<"r", "e", "g">>

pkg == <<"p", "k", "g">>

sub == <<"s", "u", "b">>

odd == <<"o", "d", "d">>

doc == <<"d", "o", "c">>

gone == <<"g", "o", "n", "e">>

deep == <<"d", "e", "e", "p">>

mix == <<"m", "i", "x">>

PartNames == {pkg, sub, odd, doc, gone, deep, mix}

Entry(type, path) == [type |-> type, path |-> path]

\* the directories below a registry root, each with its listing in the
\* order the API returns it
Listings(root) ==
  LET P(rel) == IF root = <<>> THEN rel ELSE Join2(root, rel)
  IN  [p \in {P(pkg), P(Join2(pkg, <<"l">>)), P(sub), P(odd), P(Join2(odd, partsYAMLFile)),
               P(deep), P(Join2(deep, <<"d">>)), P(mix), P(Join2(mix, <<"d">>))} |->
        IF p = P(pkg)
          THEN << Entry("file", P(Join2(pkg, partsYAMLFile))),
                  Entry("dir", P(Join2(pkg, <<"l">>))),
                  Entry("symlink", P(Join2(pkg, <<"s">>))) >>
        ELSE IF p = P(Join2(pkg, <<"l">>))
          THEN << Entry("file", P(Join2(Join2(pkg, <<"l">>), <<"a">>))) >>
        ELSE IF p = P(sub)
          THEN << Entry("file", P(Join2(sub, <<"x">>))),
                  Entry("submodule", P(Join2(sub, <<"m">>))),
                  Entry("file", P(Join2(sub, partsYAMLFile))) >>
        ELSE IF p = P(odd)
          THEN << Entry("dir", P(Join2(odd, partsYAMLFile))) >>
        ELSE IF p = P(deep)
          THEN << Entry("dir", P(Join2(deep, <<"d">>))),
                  Entry("file", P(Join2(deep, partsYAMLFile))) >>
        ELSE IF p = P(Join2(deep, <<"d">>))
          THEN << Entry("file", P(Join2(Join2(deep, <<"d">>), <<"a">>))),
                  Entry("submodule", P(Join2(Join2(deep, <<"d">>), <<"m">>))),
                  Entry("file", P(Join2(Join2(deep, <<"d">>), <<"z">>))) >>
        ELSE IF p = P(mix)
          THEN << Entry("dir", P(Join2(mix, <<"d">>))),
                  Entry("file", P(Join2(mix, partsYAMLFile))) >>
        ELSE IF p = P(Join2(mix, <<"d">>))
          THEN << Entry("file", P(Join2(Join2(mix, <<"d">>), <<"b">>))) >>
        ELSE << >>]

\* the files below a registry root
Files(root) ==
  LET P(rel) == IF root = <<>> THEN rel ELSE Join2(root, rel)
  IN  { P(Join2(pkg, partsYAMLFile)), P(Join2(Join2(pkg, <<"l">>), <<"a">>)),
        P(Join2(sub, <<"x">>)), P(Join2(sub, partsYAMLFile)), P(doc),
        P(Join2(deep, partsYAMLFile)), P(Join2(Join2(deep, <<"d">>), <<"a">>)),
        P(Join2(Join2(deep, <<"d">>), <<"z">>)),
        P(Join2(mix, partsYAMLFile)), P(Join2(Join2(mix, <<"d">>), <<"b">>)),
        P(registryYAMLFile) }

----------------------------------------------------------------------------
(* The content resolver *)

\* what a run of transport and handler calls has done so far: the calls in
\* order, how many Contents calls and handler calls there were, the error,
\* and whether a transport call has failed
NewRun(trace) == [trace |-> trace, n |-> 0, h |-> 0, err |-> NoErr, terr |-> FALSE]

Fail(st, err) == [st EXCEPT !.err = err]

\* defaultGitHub.Contents against the repository: an error, a file or a
\* directory listing. inj says what goes wrong: the at-th Contents call
\* fails in the API ("api") or in decoding its file ("content"), the hat-th
\* handler call fails
Contents(d, st, path, ref, inj) ==
  LET n1   == st.n + 1
      st1  == [st EXCEPT !.n = n1, !.trace = Append(@, TransportCall("Contents", path, ref, "Background"))]
      st2  == [st1 EXCEPT !.terr = TRUE]
      norm == TrimPrefix(path, <<"/">>)
      dirs == Listings(d.regRepoPath)
  IN  IF inj.at = n1 /\ inj.kind = "api"
        THEN [st |-> st2, kind |-> "err", dir |-> <<>>, contentErr |-> FALSE]
      ELSE IF norm \in DOMAIN dirs
        THEN [st |-> st1, kind |-> "dir", dir |-> dirs[norm], contentErr |-> FALSE]
      ELSE IF norm \in Files(d.regRepoPath)
        THEN [st |-> st1, kind |-> "file", dir |-> <<>>,
              contentErr |-> (inj.at = n1 /\ inj.kind = "content")]
      ELSE [st |-> st2, kind |-> "err", dir |-> <<>>, contentErr |-> FALSE]

rebaseToRoot_repoPath(d, path) == TrimPrefix(path, <<"/">>)

\* GitHub.rebaseToRoot
rebaseToRoot(d, path) ==
  LET root       == d.regRepoPath
      rebasedAbs == TrimPrefix(TrimPrefix(path, <<"/">>), root)
  IN  TrimPrefix(rebasedAbs, <<"/">>)

\* a call of the caller's handler behind chrootOnFile or chrootOnDir
Handler(d, st, call, relPath, inj) ==
  LET h1  == st.h + 1
      st1 == [st EXCEPT !.h = h1,
                        !.trace = Append(@, Event(call, rebaseToRoot(d, relPath), ""))]
  IN  IF inj.hat = h1 THEN Fail(st1, NewErr("handler")) ELSE st1

RECURSIVE resolveDir(_, _, _, _, _, _)
RECURSIVE resolveItems(_, _, _, _, _, _, _)

resolveItem_listFirst(d, libID, item, version, st, inj) ==
  IF item.type = "file"
    THEN LET c == Contents(d, st, item.path, version, inj)
         IN  IF c.kind = "err" THEN Fail(c.st, NewErr("api"))
             ELSE IF c.kind = "dir" THEN Fail(c.st, NewErr("INTERNAL ERROR"))
             ELSE IF c.contentErr THEN Fail(c.st, NewErr("content"))
             ELSE Handler(d, c.st, "onFile", item.path, inj)
  ELSE IF item.type = "dir"
    THEN LET st1 == resolveDir(d, libID, item.path, version, st, inj)
         IN  IF st1.err /= NoErr THEN st1
             ELSE Handler(d, st1, "onDir", item.path, inj)
  ELSE IF item.type = "submodule"
    THEN Fail(st, NewErr("Invalid library"))
  ELSE st

resolveItem_skipSubmodule(d, libID, item, version, st, inj) ==
  IF item.type = "file"
    THEN LET c == Contents(d, st, item.path, version, inj)
         IN  IF c.kind = "err" THEN Fail(c.st, NewErr("api"))
             ELSE IF c.kind = "dir" THEN Fail(c.st, NewErr("INTERNAL ERROR"))
             ELSE IF c.contentErr THEN Fail(c.st, NewErr("content"))
             ELSE Handler(d, c.st, "onFile", item.path, inj)
  ELSE IF item.type = "dir"
    THEN LET st1 == Handler(d, st, "onDir", item.path, inj)
         IN  IF st1.err /= NoErr THEN st1
             ELSE resolveDir(d, libID, item.path, version, st1, inj)
  ELSE st

\* one entry of a listing: the body of the loop of resolveDir
resolveItem(d, libID, item, version, st, inj) ==
  IF item.type = "file"
    THEN LET c == Contents(d, st, item.path, version, inj)
         IN  IF c.kind = "err" THEN Fail(c.st, NewErr("api"))
             ELSE IF c.kind = "dir" THEN Fail(c.st, NewErr("INTERNAL ERROR"))
             ELSE IF c.contentErr THEN Fail(c.st, NewErr("content"))
             ELSE Handler(d, c.st, "onFile", item.path, inj)
  ELSE IF item.type = "dir"
    THEN LET st1 == Handler(d, st, "onDir", item.path, inj)
         IN  IF st1.err /= NoErr THEN st1
             ELSE resolveDir(d, libID, item.path, version, st1, inj)
  ELSE IF item.type = "submodule"
    THEN Fail(st, NewErr("Invalid library"))
  ELSE st

resolveItems_keepGoing(d, libID, directory, i, version, st, inj) ==
  IF i > Len(directory) THEN st
  ELSE LET st1 == resolveItem(d, libID, directory[i], version, st, inj)
       IN  resolveItems(d, libID, directory, i + 1, version, st1, inj)

\* the loop of resolveDir from entry i on; an error returns at once
resolveItems(d, libID, directory, i, version, st, inj) ==
  IF i > Len(directory) THEN st
  ELSE LET st1 == resolveItem(d, libID, directory[i], version, st, inj)
       IN  IF st1.err /= NoErr THEN st1
           ELSE resolveItems(d, libID, directory, i + 1, version, st1, inj)

\* GitHub.resolveDir
resolveDir(d, libID, path, version, st, inj) ==
  LET c == Contents(d, st, path, version, inj)
  IN  IF c.kind = "err" THEN Fail(c.st, NewErr("api"))
      ELSE IF c.kind = "file" THEN Fail(c.st, NewErr("resolves to a file"))
      ELSE resolveItems(d, libID, c.dir, 1, version, c.st, inj)

----------------------------------------------------------------------------
(* Resolving a library *)

\* the name of the registry, gh.Name()
RegistryName == "incubator"

\* *parts.Spec and *app.LibraryConfig: nil pointers or values
NilParts == [nil |-> TRUE, Name |-> <<>>, Version |-> ""]

NilLib == [nil |-> TRUE, Name |-> <<>>, Registry |-> "", Version |-> ""]

ResolveResult(ret, parts, lib, err, sha, st) ==
  [ret |-> ret, parts |-> parts, lib |-> lib, err |-> err, sha |-> sha,
   trace |-> st.trace, terr |-> st.terr]

\* lines 374-387 of ResolveLibrary: the commit to resolve the library at;
\* ret is the line that returns when there is none
resolveSHA(d, hds, libRefSpec, co) ==
  IF libRefSpec = ""
    THEN LET r == resolveLatestSHA(d, hds, co)
         IN  [sha |-> r.sha, trace |-> r.trace, terr |-> r.err /= NoErr,
              ret |-> IF r.err /= NoErr \/ r.sha = "" THEN 378 ELSE 0,
              err |-> Wrapf(r.err, "unable to resolve commit for refspec")]
    ELSE LET r == CommitSHA1(hds, libRefSpec, co)
         IN  [sha |-> r.sha, trace |-> <<TransportCall("CommitSHA1", <<>>, libRefSpec, "Background")>>,
              terr |-> r.err /= NoErr,
              ret |-> IF r.err /= NoErr THEN 385 ELSE 0,
              err |-> r.err]

resolveAppSpec_atConfiguredRef(d, path, partName, partAlias, resolvedSHA, st, inj, mo) ==
  LET appSpecPath == Join2(path, partsYAMLFile)
      c == Contents(d, st, appSpecPath, d.refSpec, inj)
  IN  IF c.kind = "err"
        THEN ResolveResult(402, NilParts, NilLib, NewErr("api"), resolvedSHA, c.st)
      ELSE IF c.kind = "dir"
        THEN ResolveResult(404, NilParts, NilLib, NewErr("Can't download library specification"),
                           resolvedSHA, c.st)
      ELSE IF c.contentErr
        THEN ResolveResult(409, NilParts, NilLib, NewErr("content"), resolvedSHA, c.st)
      ELSE IF mo = "badyaml"
        THEN ResolveResult(414, NilParts, NilLib, NewErr("unmarshal"), resolvedSHA, c.st)
      ELSE ResolveResult(427,
             [nil |-> FALSE, Name |-> partName, Version |-> RawVersion],
             [nil |-> FALSE, Name |-> IF partAlias = <<>> THEN partName ELSE partAlias,
              Registry |-> RegistryName, Version |-> resolvedSHA],
             NoErr, resolvedSHA, c.st)

\* lines 396-427 of ResolveLibrary: the library's manifest and the result
resolveAppSpec(d, path, partName, partAlias, resolvedSHA, st, inj, mo) ==
  LET appSpecPath == Join2(path, partsYAMLFile)
      c == Contents(d, st, appSpecPath, resolvedSHA, inj)
  IN  IF c.kind = "err"
        THEN ResolveResult(402, NilParts, NilLib, NewErr("api"), resolvedSHA, c.st)
      ELSE IF c.kind = "dir"
        THEN ResolveResult(404, NilParts, NilLib, NewErr("Can't download library specification"),
                           resolvedSHA, c.st)
      ELSE IF c.contentErr
        THEN ResolveResult(409, NilParts, NilLib, NewErr("content"), resolvedSHA, c.st)
      ELSE IF mo = "badyaml"
        THEN ResolveResult(414, NilParts, NilLib, NewErr("unmarshal"), resolvedSHA, c.st)
      ELSE ResolveResult(427,
             [nil |-> FALSE, Name |-> partName, Version |-> RawVersion],
             [nil |-> FALSE, Name |-> IF partAlias = <<>> THEN partName ELSE partAlias,
              Registry |-> RegistryName, Version |-> resolvedSHA],
             NoErr, resolvedSHA, c.st)

ResolveLibrary_ignoreDirErr(d, hds, partName, partAlias, libRefSpec, co, inj, mo) ==
  LET r   == resolveSHA(d, hds, libRefSpec, co)
      st0 == [NewRun(r.trace) EXCEPT !.terr = r.terr]
  IN  IF r.ret /= 0
        THEN ResolveResult(r.ret, NilParts, NilLib, r.err, r.sha, st0)
        ELSE LET path == Join2(d.regRepoPath, partName)
                 st   == resolveDir(d, partName, path, r.sha, st0, inj)
             IN  resolveAppSpec(d, path, partName, partAlias, r.sha, st, inj, mo)

\* GitHub.ResolveLibrary
ResolveLibrary(d, hds, partName, partAlias, libRefSpec, co, inj, mo) ==
  LET r   == resolveSHA(d, hds, libRefSpec, co)
      st0 == [NewRun(r.trace) EXCEPT !.terr = r.terr]
  IN  IF r.ret /= 0
        THEN ResolveResult(r.ret, NilParts, NilLib, r.err, r.sha, st0)
        ELSE LET path == Join2(d.regRepoPath, partName)
                 st   == resolveDir(d, partName, path, r.sha, st0, inj)
             IN  IF st.err /= NoErr
                   THEN ResolveResult(393, NilParts, NilLib, st.err, r.sha, st)
                   ELSE resolveAppSpec(d, path, partName, partAlias, r.sha, st, inj, mo)

\* GitHub.ResolveLibrarySpec
ResolveLibrarySpec(d, hds, partName, libRefSpec, co, inj, mo) ==
  LET r   == CommitSHA1(hds, libRefSpec, co)
      st0 == [NewRun(<<TransportCall("CommitSHA1", <<>>, libRefSpec, "Background")>>)
                EXCEPT !.terr = r.err /= NoErr]
  IN  IF r.err /= NoErr
        THEN ResolveResult(302, NilParts, NilLib, r.err, r.sha, st0)
        ELSE LET appSpecPath == Join2(Join2(d.regRepoPath, partName), partsYAMLFile)
                 c == Contents(d, st0, appSpecPath, r.sha, inj)
             IN  IF c.kind = "err"
                   THEN ResolveResult(310, NilParts, NilLib, NewErr("api"), r.sha, c.st)
                 ELSE IF c.kind = "dir"
                   THEN ResolveResult(312, NilParts, NilLib,
                          NewErr("Can't download library specification"), r.sha, c.st)
                 ELSE IF c.contentErr
                   THEN ResolveResult(317, NilParts, NilLib, NewErr("content"), r.sha, c.st)
                 ELSE IF mo = "badyaml"
                   THEN ResolveResult(322, NilParts, NilLib, NewErr("unmarshal"), r.sha, c.st)
                 ELSE ResolveResult(328,
                        [nil |-> FALSE, Name |-> partName, Version |-> r.sha],
                        NilLib, NoErr, r.sha, c.st)

----------------------------------------------------------------------------
(* Registry URIs *)

defaultGitHubBranch == "master"

\* the names that occur in URIs, with the characters of each
Chars ==
  [seg \in {"", "api", "v3", "repos", "org", "repo", "tree", "blob", "contents", "raw",
            "master", "reg", "pkg", "registry.yaml"} |->
     IF seg = "" THEN << >>
     ELSE IF seg = "api" THEN <<"a", "p", "i">>
     ELSE IF seg = "v3" THEN <<"v", "3">>
     ELSE IF seg = "repos" THEN <<"r", "e", "p", "o", "s">>
     ELSE IF seg = "org" THEN <<"o", "r", "g">>
     ELSE IF seg = "repo" THEN <<"r", "e", "p", "o">>
     ELSE IF seg = "tree" THEN <<"t", "r", "e", "e">>
     ELSE IF seg = "blob" THEN <<"b", "l", "o", "b">>
     ELSE IF seg = "contents" THEN <<"c", "o", "n", "t", "e", "n", "t", "s">>
     ELSE IF seg = "raw" THEN <<"r", "a", "w">>
     ELSE IF seg = "master" THEN <<"m", "a", "s", "t", "e", "r">>
     ELSE IF seg = "reg" THEN regDir
     ELSE IF seg = "pkg" THEN pkg
     ELSE registryYAMLFile]

RECURSIVE JoinPath(_)

\* strings.Join(components, "/")
JoinPath(segs) ==
  IF segs = << >> THEN << >>
  ELSE IF Len(segs) = 1 THEN Chars[segs[1]]
  ELSE Chars[segs[1]] \o <<"/">> \o JoinPath(Tail(segs))

\* a URI as url.Parse and strings.Split take it apart: the scheme written in
\* front of it ("" when there is none), the labels of the host, the
\* components of the path between the separators (the first is blank when
\* there is a path) and the query as pairs of key and value
URI(scheme, host, path, query) ==
  [scheme |-> scheme, host |-> host, path |-> path, query |-> query]

NoURI == URI("", << >>, << >>, << >>)

PublicHost == <<"github", "com">>

EnterpriseHost == <<"github", "my-company", "com">>

Hosts == {PublicHost, <<"www", "github", "com">>, EnterpriseHost, <<"gitlab", "com">>}

Schemes == {"", "https", "ftp"}

Queries ==
  { << >>, << <<"ref", "dev">> >>, << <<"ref", "dev">>, <<"ref", "c1">> >>,
    << <<"token", "t">> >>, << <<"ref", "dev">>, <<"token", "t">> >> }

\* the sequences over s of length from 0 to n
SeqsUpTo(s, n) == UNION {[1..k -> s] : k \in 0..n}

\* what a URI has after the repository: nothing, or a kind with a
\* reference, directories and an ending (a trailing separator, a manifest
\* file name, two separators)
Rests ==
  {<< >>} \cup
  { <<k>> \o mid \o end :
      k \in {"tree", "blob", "contents", "raw"},
      mid \in {<< >>} \cup { <<r>> \o dirs : r \in {"master", "reg"},
                                             dirs \in SeqsUpTo({"reg", "pkg"}, MaxDirs) },
      end \in {<< >>, <<"">>, <<"registry.yaml">>, <<"", "">>} }

UriPaths ==
  { anchor \o owner :
      anchor \in {<<"">>, <<"", "api", "v3">>, <<"", "api", "v3", "repos">>},
      owner \in {<< >>, <<"org">>} }
  \cup
  { anchor \o <<"org", "repo">> \o rest :
      anchor \in {<<"">>, <<"", "api", "v3">>, <<"", "api", "v3", "repos">>},
      rest \in Rests }

URIs == { URI(sc, h, pa, q) : sc \in Schemes, h \in Hosts, pa \in UriPaths, q \in Queries }

\* *url.URL: nil or a value
NilURL == [nil |-> TRUE, scheme |-> "", host |-> << >>, path |-> << >>]

\* *hubDescriptor: nil or a value
NilHub ==
  [nil |-> TRUE, baseURL |-> NilURL, org |-> "", repo |-> "", refSpec |-> "",
   regRepoPath |-> << >>, regSpecRepoPath |-> << >>]

\* what a call of parseGitHubURI ends in: a descriptor ("ok"), an error
\* ("err") or a run-time panic ("panic"), and the line where it ends
ParseResult(kind, line, h) == [kind |-> kind, line |-> line, hd |-> h]

NotParsed == ParseResult("none", 0, NilHub)

\* strings.HasPrefix(uri, "github.") || strings.HasPrefix(uri, "www.github.")
\* for the host a URI begins with
GitHubHost(host) ==
  \/ Len(host) >= 2 /\ host[1] = "github"
  \/ Len(host) >= 3 /\ host[1] = "www" /\ host[2] = "github"

\* strings.HasSuffix(parsed.Host, "github.com")
HasSuffixGitHubCom(host) ==
  Len(host) >= 2 /\ SubSeq(host, Len(host) - 1, Len(host)) = PublicHost

\* parsed.Query(): the keys, and the values of a key in order
QueryKeys(query) == {query[i][1] : i \in DOMAIN query}

QueryValues(query, key) ==
  LET F[i \in 0..Len(query)] ==
        IF i = 0 THEN << >>
        ELSE IF query[i][1] = key THEN Append(F[i - 1], query[i][2]) ELSE F[i - 1]
  IN  F[Len(query)]

\* the index of the first "repos" component, counted from 0; -1 without one
ReposIndex(components) ==
  IF \E i \in DOMAIN components : components[i] = "repos"
    THEN (CHOOSE i \in DOMAIN components :
            /\ components[i] = "repos"
            /\ \A j \in 1..(i - 1) : components[j] /= "repos") - 1
    ELSE -1

\* components[i], counted from 0
At(components, i) == components[i + 1]

\* components[from:to], counted from 0
Slice(components, from, to) == SubSeq(components, from + 1, to)

\* lines 591-650 of parseGitHubURI: the reference and the two paths
parsePaths(h, components, isEnterprise, baseIndex) ==
  LET len == Len(components)
      \* the two paths of a directory whose first component is at index from
      dirPaths(from) ==
        IF At(components, len - 1) = ""
          THEN [regRepoPath |-> JoinPath(Slice(components, from, len - 1)),
                regSpecRepoPath |->
                  JoinPath(Slice([components EXCEPT ![len] = "registry.yaml"], from, len))]
          ELSE [regRepoPath |-> JoinPath(Slice(components, from, len)),
                regSpecRepoPath |->
                  JoinPath(Slice(Append(components, "registry.yaml"), from, len + 1))]
      root == [h EXCEPT !.refSpec = defaultGitHubBranch, !.regRepoPath = << >>,
                        !.regSpecRepoPath = registryYAMLFile]
  IN  IF isEnterprise
        THEN IF len > baseIndex + 4
               THEN ParseResult("ok", 606,
                      [h EXCEPT !.regRepoPath = dirPaths(baseIndex + 4).regRepoPath,
                                !.regSpecRepoPath = dirPaths(baseIndex + 4).regSpecRepoPath])
               ELSE ParseResult("ok", 612, root)
      ELSE IF len <= baseIndex + 4
        THEN ParseResult("panic", 615, NilHub)
      ELSE LET h1 == [h EXCEPT !.refSpec = At(components, baseIndex + 4)]
           IN  IF len > baseIndex + 4
                 THEN IF At(components, baseIndex + 3) = "tree"
                        THEN ParseResult("ok", 634,
                               [h1 EXCEPT !.regRepoPath = dirPaths(baseIndex + 5).regRepoPath,
                                          !.regSpecRepoPath =
                                             dirPaths(baseIndex + 5).regSpecRepoPath])
                      ELSE IF At(components, baseIndex + 3) = "blob"
                              /\ At(components, len - 1) = "registry.yaml"
                        THEN ParseResult("ok", 639,
                               [h1 EXCEPT !.regRepoPath =
                                             JoinPath(Slice(components, baseIndex + 5, len - 1)),
                                          !.regSpecRepoPath =
                                             JoinPath(Slice(components, baseIndex + 5, len))])
                      ELSE ParseResult("err", 641, NilHub)
                 ELSE ParseResult("ok", 648, root)

\* lines 558-570 of parseGitHubURI: the debug line, the length test, org and repo
parseRepo(h, components, isEnterprise, baseIndex) ==
  IF h.baseURL.nil
    THEN ParseResult("panic", 558, NilHub)
  ELSE IF Len(components) < baseIndex + 3
    THEN ParseResult("err", 562, NilHub)
  ELSE parsePaths([h EXCEPT !.org = At(components, baseIndex + 1),
                            !.repo = At(components, baseIndex + 2)],
                  components, isEnterprise, baseIndex)

\* parseGitHubURI
parseGitHubURI(u) ==
  LET scheme       == IF u.scheme = "" THEN "http" ELSE u.scheme
      components   == u.path
      isEnterprise == ~HasSuffixGitHubCom(u.host)
      baseIndex    == IF isEnterprise THEN ReposIndex(components) ELSE 0
      nkeys        == Cardinality(QueryKeys(u.query))
      refSpecs     == QueryValues(u.query, "ref")
      h0 == [NilHub EXCEPT !.nil = FALSE]
      h1 == [h0 EXCEPT
               !.baseURL = [nil |-> FALSE, scheme |-> scheme, host |-> u.host,
                            path |-> JoinPath(Slice(components, 0, baseIndex)) \o <<"/">>],
               !.refSpec = IF nkeys = 0 THEN "" ELSE refSpecs[1]]
  IN  IF ~(u.scheme \in {"", "http", "https"} /\ GitHubHost(u.host))
        THEN ParseResult("err", 505, NilHub)
      ELSE IF isEnterprise
        THEN IF baseIndex = -1
               THEN ParseResult("err", 529, NilHub)
             ELSE IF nkeys = 0 \/ (nkeys = 1 /\ Len(refSpecs) = 1)
               THEN parseRepo(h1, components, isEnterprise, baseIndex)
             ELSE ParseResult("err", 547, NilHub)
      ELSE IF nkeys /= 0
        THEN ParseResult("err", 552, NilHub)
      ELSE parseRepo(h0, components, isEnterprise, baseIndex)

----------------------------------------------------------------------------
(* The param delete action *)

RECURSIVE Split(_, _)

\* strings.Split(s, sep) for a separator of one character
Split(s, sep) ==
  IF \E i \in DOMAIN s : s[i] = sep
    THEN LET k == CHOOSE i \in DOMAIN s : s[i] = sep /\ \A j \in 1..(i - 1) : s[j] /= sep
         IN  <<SubSeq(s, 1, k - 1)>> \o Split(SubSeq(s, k + 1, Len(s)), sep)
    ELSE <<s>>

\* the options NewParamDelete is called with; err says that the option
\* loader fails (no application, or no path)
Options ==
  [name : {"", "comp", "mod.comp"},
   rawPath : {<<"a">>, <<"a", ".", "b">>, <<"a", ".", "b", ".", "c">>},
   global : BOOLEAN, envName : {"", "dev"}, err : BOOLEAN]

\* *ParamDelete: nil, with the error NewParamDelete returned, or a value
NilParamDelete(err) ==
  [nil |-> TRUE, err |-> err, name |-> "", rawPath |-> << >>, global |-> FALSE,
   envName |-> ""]

\* NewParamDelete
NewParamDelete(m) ==
  IF m.err THEN NilParamDelete(NewErr("option loader"))
  ELSE IF m.envName /= "" /\ m.global
    THEN NilParamDelete(NewErr("unable to delete global param for environments"))
  ELSE [nil |-> FALSE, err |-> NoErr, name |-> m.name, rawPath |-> m.rawPath,
        global |-> m.global, envName |-> m.envName]

\* a call Run makes: the function, and the environment, the name, the path
\* as given and the path split, as far as the function takes them
PdCall(fn, envName, name, rawPath, path) ==
  [fn |-> fn, envName |-> envName, name |-> name, rawPath |-> rawPath, path |-> path]

\* what a Run ends in: the calls it made and the error it returned
RunResult(calls, err) == [ran |-> TRUE, calls |-> calls, err |-> err]

NoRun == [ran |-> FALSE, calls |-> << >>, err |-> NoErr]

\* ParamDelete.deleteGlobal; lo is what the calls it makes end in: "ok",
\* "lookuperr" (no module or component), "nilcomponent" or "deleteerr"
deleteGlobal(p, path, lo) ==
  LET get == PdCall("getModuleFn", "", p.name, << >>, << >>)
      del == PdCall("Module.DeleteParam", "", p.name, << >>, path)
  IN  IF lo = "lookuperr" THEN RunResult(<<get>>, Wrapf(NewErr("module"), "retrieve module"))
      ELSE IF lo = "deleteerr"
        THEN RunResult(<<get, del>>, Wrapf(NewErr("delete"), "delete global param"))
      ELSE RunResult(<<get, del>>, NoErr)

\* ParamDelete.deleteLocal
deleteLocal(p, path, lo) ==
  LET get == PdCall("resolvePathFn", "", p.name, << >>, << >>)
      del == PdCall("Component.DeleteParam", "", p.name, << >>, path)
  IN  IF lo = "lookuperr"
        THEN RunResult(<<get>>, Wrapf(NewErr("component"), "could not find component"))
      ELSE IF lo = "nilcomponent"
        THEN RunResult(<<get>>, NewErr("invalid component or param key"))
      ELSE IF lo = "deleteerr"
        THEN RunResult(<<get, del>>, Wrapf(NewErr("delete"), "delete param"))
      ELSE RunResult(<<get, del>>, NoErr)

Run_globalForEnv(p, lo) ==
  IF p.envName /= ""
    THEN RunResult(<<PdCall("deleteEnvGlobalFn", p.envName, "", p.rawPath, << >>)>>,
                   IF lo = "deleteerr" THEN NewErr("delete") ELSE NoErr)
  ELSE IF p.global THEN deleteGlobal(p, Split(p.rawPath, "."), lo)
  ELSE deleteLocal(p, Split(p.rawPath, "."), lo)

\* ParamDelete.Run
Run(p, lo) ==
  IF p.envName /= ""
    THEN IF p.name /= ""
           THEN RunResult(<<PdCall("deleteEnvFn", p.envName, p.name, p.rawPath, << >>)>>,
                          IF lo = "deleteerr" THEN NewErr("delete") ELSE NoErr)
           ELSE RunResult(<<PdCall("deleteEnvGlobalFn", p.envName, "", p.rawPath, << >>)>>,
                          IF lo = "deleteerr" THEN NewErr("delete") ELSE NoErr)
  ELSE IF p.global THEN deleteGlobal(p, Split(p.rawPath, "."), lo)
  ELSE deleteLocal(p, Split(p.rawPath, "."), lo)

----------------------------------------------------------------------------
(* The state machine *)

\* references a library is asked at
LibRefs == {"", "master", "c2"}

Aliases == {<<>>, <<"w">>}

Descriptor(r, p) ==
  [refSpec |-> r, regRepoPath |-> p,
   regSpecRepoPath |-> IF p = <<>> THEN registryYAMLFile ELSE Join2(p, registryYAMLFile)]

Descriptors ==
  { Descriptor("", regDir), Descriptor("master", <<>>),
    Descriptor("master", regDir), Descriptor("c1", regDir) }

\* a cache file of a version that did not record the revision
LegacySpec == MkSpec("", [n \in {"apache"} |-> RawVersion])

\* a cache file that records a revision with libraries as the manifest had them
ForeignSpec == MkSpec("c1", [n \in {"apache"} |-> RawVersion])

\* what goes wrong in a call; the first error ends a call, so one fault a
\* call is every case
Fault(kind, at) == [kind |-> kind, at |-> at]

\* the record of a call: the operation, the line that returned, the results,
\* the calls it made, and what it started from
CallRecord(op, r, spec, parts, lib, before, d, flt, part) ==
  [op |-> op, ret |-> r.ret, err |-> r.err, spec |-> spec, parts |-> parts, lib |-> lib,
   sha |-> r.sha, trace |-> r.trace, terr |-> r.terr, before |-> before,
   ref |-> d.refSpec, fault |-> flt, part |-> part]

NoCall ==
  [op |-> "none", ret |-> 0, err |-> NoErr, spec |-> NilSpec, parts |-> NilParts,
   lib |-> NilLib, sha |-> "", trace |-> <<>>, terr |-> FALSE,
   before |-> [dir |-> FALSE, file |-> AbsentFile], ref |-> "", fault |-> Fault("none", 0),
   part |-> <<>>]

\* what is kept of the call before the last one: was it a FetchRegistrySpec
\* call that returned no error
Summary(c) == [fetched |-> (c.op = "FetchRegistrySpec" /\ c.err = NoErr)]

\* no call is under way and the caller has taken the result of the last one
Idle == last.op = "none"

FetchFaults ==
  { Fault(k, 0) : k \in {"none", "commit-err", "commit-empty", "contents-err", "nofile",
                         "badcontent", "badyaml", "marshalerr", "mkdirerr", "writeerr",
                         "writetrunc"} }

ResolveFaults ==
  { Fault(k, 0) : k \in {"none", "commit-err", "commit-empty", "badyaml"} }
    \cup { Fault(k, i) : k \in {"api", "content", "handler"}, i \in 1..MaxFail }

ResolveSpecFaults ==
  { Fault(k, 0) : k \in {"none", "commit-err", "commit-empty", "badyaml"} }
    \cup { Fault(k, 1) : k \in {"api", "content"} }

Co(flt) == IF flt.kind = "commit-err" THEN "err"
           ELSE IF flt.kind = "commit-empty" THEN "empty" ELSE "ok"

Fo(flt) == IF flt.kind = "contents-err" THEN "err"
           ELSE IF flt.kind \in {"nofile", "badcontent", "badyaml"} THEN flt.kind ELSE "ok"

Po(flt) == IF flt.kind \in {"marshalerr", "mkdirerr", "writeerr", "writetrunc"}
             THEN flt.kind ELSE "ok"

Inj(flt) == [at   |-> IF flt.kind \in {"api", "content"} THEN flt.at ELSE 0,
             kind |-> IF flt.kind = "content" THEN "content" ELSE "api",
             hat  |-> IF flt.kind = "handler" THEN flt.at ELSE 0]

Mo(flt) == IF flt.kind = "badyaml" THEN "badyaml" ELSE "ok"

Init ==
  /\ fs \in { [dir |-> FALSE, file |-> AbsentFile],
              [dir |-> TRUE, file |-> CorruptFile],
              [dir |-> TRUE, file |-> SpecFile(LegacySpec)],
              [dir |-> TRUE, file |-> SpecFile(ForeignSpec)] }
  /\ hd \in Descriptors
  /\ head \in [Branches -> Shas]
  /\ last = NoCall
  /\ prev = Summary(NoCall)
  /\ uri = NoURI /\ baseURL = NilURL /\ pin = NoURI /\ pout = NotParsed
  /\ pd = NilParamDelete(NoErr) /\ pdOut = NoRun

\* a call of FetchRegistrySpec
Fetch ==
  \E flt \in FetchFaults, m \in RemoteSpecs :
    LET r    == FetchRegistrySpec(fs, hd, head, Co(flt), Fo(flt), m, Po(flt))
        used == Count(r.trace, "Contents") > 0
        rr   == [ret |-> r.ret, err |-> r.err, sha |-> r.sha, trace |-> r.trace,
                 terr |-> (flt.kind = "commit-err" \/ (used /\ flt.kind = "contents-err"))]
    IN  /\ Idle
        /\ fs' = r.fs
        /\ last' = CallRecord("FetchRegistrySpec", rr, r.spec, NilParts, NilLib, fs, hd, flt, <<>>)
        /\ UNCHANGED <<hd, head, prev>>
        /\ UNCHANGED <<uriVars, paramVars>>

\* a call of ResolveLibrary
Resolve ==
  \E partName \in PartNames, partAlias \in Aliases, libRefSpec \in LibRefs,
     flt \in ResolveFaults :
    LET r == ResolveLibrary(hd, head, partName, partAlias, libRefSpec,
                            Co(flt), Inj(flt), Mo(flt))
    IN  /\ Idle
        /\ last' = CallRecord("ResolveLibrary", r, NilSpec, r.parts, r.lib, fs, hd, flt, partName)
        /\ UNCHANGED <<fs, hd, head, prev>>
        /\ UNCHANGED <<uriVars, paramVars>>

\* a call of ResolveLibrarySpec
ResolveSpec ==
  \E partName \in PartNames, libRefSpec \in LibRefs, flt \in ResolveSpecFaults :
    LET r == ResolveLibrarySpec(hd, head, partName, libRefSpec, Co(flt), Inj(flt), Mo(flt))
    IN  /\ Idle
        /\ last' = CallRecord("ResolveLibrarySpec", r, NilSpec, r.parts, r.lib, fs, hd, flt, partName)
        /\ UNCHANGED <<fs, hd, head, prev>>
        /\ UNCHANGED <<uriVars, paramVars>>

\* the caller takes the result; its calls are synchronous, one after the other
Return ==
  /\ ~Idle
  /\ prev' = Summary(last)
  /\ last' = NoCall
  /\ UNCHANGED <<fs, hd, head>>
  /\ UNCHANGED <<uriVars, paramVars>>

\* upstream, a branch moves to another commit, between two calls
Push ==
  \E b \in Branches, c \in Shas :
    /\ Idle
    /\ head[b] /= c
    /\ head' = [head EXCEPT ![b] = c]
    /\ UNCHANGED <<fs, hd, last, prev>>
    /\ UNCHANGED <<uriVars, paramVars>>

Next == Fetch \/ Resolve \/ ResolveSpec \/ Return \/ Push

Spec == Init /\ [][Next]_vars

----------------------------------------------------------------------------
(* parseGitHubURI applied to the URIs of the pool *)

\* the variables of the cache and of the repository, which no call that
\* takes a URI touches
regVars == <<fs, head, prev>>

InitParse ==
  /\ fs = [dir |-> FALSE, file |-> AbsentFile]
  /\ hd = NilHub
  /\ head = [b \in Branches |-> "c1"]
  /\ last = NoCall
  /\ prev = Summary(NoCall)
  /\ uri = NoURI /\ baseURL = NilURL
  /\ pin \in URIs
  /\ pout = NotParsed
  /\ pd = NilParamDelete(NoErr) /\ pdOut = NoRun

\* a call of parseGitHubURI
Parse ==
  /\ pout = NotParsed
  /\ pout' = parseGitHubURI(pin)
  /\ UNCHANGED <<fs, hd, head, last, prev, uri, baseURL, pin>>
  /\ UNCHANGED paramVars

NextParse == Parse

SpecParse == InitParse /\ [][NextParse]_vars

----------------------------------------------------------------------------
(* Constructing a registry and setting its URI *)

EnterpriseRepo == <<"", "api", "v3", "repos", "org", "repo">>

\* the URIs a registry is constructed with or set to
ConfigURIs ==
  { URI("https", EnterpriseHost, EnterpriseRepo \o <<"contents", "reg">>, << <<"ref", "dev">> >>),
    URI("https", EnterpriseHost, EnterpriseRepo \o <<"contents", "reg", "">>, << <<"ref", "dev">> >>),
    URI("https", EnterpriseHost, EnterpriseRepo \o <<"contents", "reg", "pkg">>, << >>),
    URI("https", EnterpriseHost, EnterpriseRepo, << >>),
    URI("", EnterpriseHost, EnterpriseRepo, << <<"ref", "dev">> >>),
    URI("https", EnterpriseHost, <<"", "api", "v3", "org", "repo">>, << >>),
    URI("https", EnterpriseHost, EnterpriseRepo, << <<"token", "t">> >>),
    URI("", PublicHost, <<"", "org", "repo">>, << >>),
    URI("https", PublicHost, <<"", "org", "repo", "tree", "master", "reg">>, << >>),
    URI("https", PublicHost, <<"", "org", "repo">>, << <<"ref", "dev">> >>),
    URI("https", <<"gitlab", "com">>, <<"", "org", "repo">>, << >>),
    URI("https", <<"github", "other", "com">>, <<"", "api", "repos", "org", "repo">>, << >>) }

\* GitHub.ValidateURI; vo is what the HEAD request of ValidateURL ends in
ValidateURI(u, vo) ==
  IF vo /= "ok" THEN [ok |-> FALSE, err |-> NewErr("validating GitHub registry URL")]
  ELSE IF parseGitHubURI(u).kind = "err"
    THEN [ok |-> FALSE, err |-> NewErr("parsing GitHub registry URL")]
  ELSE [ok |-> TRUE, err |-> NoErr]

\* the registry after a call and what the call ended in
UriResult(h, cur, base, out) == [hd |-> h, uri |-> cur, baseURL |-> base, out |-> out]

SetURI_uriFirst(h, cur, base, u, vo) ==
  LET p == parseGitHubURI(u)
      v == ValidateURI(u, vo)
  IN  IF p.kind = "panic" THEN UriResult(h, cur, base, p)
      ELSE IF p.kind = "err" THEN UriResult(h, cur, base, ParseResult("err", 740, NilHub))
      ELSE IF v.err /= NoErr \/ ~v.ok
        THEN UriResult(h, u, base, ParseResult("err", 743, NilHub))
      ELSE UriResult(p.hd, u, base, ParseResult("ok", 751, p.hd))

\* GitHub.SetURI on a registry with descriptor h and configured URI cur
SetURI(h, cur, base, u, vo) ==
  LET p == parseGitHubURI(u)
      v == ValidateURI(u, vo)
  IN  IF p.kind = "panic" THEN UriResult(h, cur, base, p)
      ELSE IF p.kind = "err" THEN UriResult(h, cur, base, ParseResult("err", 740, NilHub))
      ELSE IF v.err /= NoErr \/ ~v.ok
        THEN UriResult(h, cur, base, ParseResult("err", 743, NilHub))
      ELSE UriResult(p.hd, u, base, ParseResult("ok", 751, p.hd))

\* NewGitHub for a configuration with URI u; when it returns an error or
\* panics there is no new registry, and the one there was stays
NewGitHub(h, cur, base, u) ==
  LET p == parseGitHubURI(u)
  IN  IF p.kind = "panic" THEN UriResult(h, cur, base, p)
      ELSE IF p.kind = "err" THEN UriResult(h, cur, base, ParseResult("err", 93, NilHub))
      ELSE UriResult(p.hd, u, p.hd.baseURL, ParseResult("ok", 98, p.hd))

InitURI ==
  /\ fs = [dir |-> FALSE, file |-> AbsentFile]
  /\ head = [b \in Branches |-> "c1"]
  /\ prev = Summary(NoCall)
  /\ last = NoCall
  /\ uri \in {u \in ConfigURIs : parseGitHubURI(u).kind = "ok"}
  /\ hd = parseGitHubURI(uri).hd
  /\ baseURL = hd.baseURL
  /\ pin = uri
  /\ pout = ParseResult("ok", 98, hd)
  /\ pd = NilParamDelete(NoErr) /\ pdOut = NoRun

\* a call of NewGitHub
Construct ==
  \E u \in ConfigURIs :
    LET r == NewGitHub(hd, uri, baseURL, u)
    IN  /\ hd' = r.hd /\ uri' = r.uri /\ baseURL' = r.baseURL
        /\ pin' = u /\ pout' = r.out
        /\ last' = [NoCall EXCEPT !.op = "NewGitHub"]
        /\ UNCHANGED <<regVars, paramVars>>

\* a call of SetURI
Set ==
  \E u \in ConfigURIs, vo \in {"ok", "err"} :
    LET r == SetURI(hd, uri, baseURL, u, vo)
    IN  /\ hd' = r.hd /\ uri' = r.uri /\ baseURL' = r.baseURL
        /\ pin' = u /\ pout' = r.out
        /\ last' = [NoCall EXCEPT !.op = "SetURI"]
        /\ UNCHANGED <<regVars, paramVars>>

NextURI == Construct \/ Set

SpecURI == InitURI /\ [][NextURI]_vars

----------------------------------------------------------------------------
(* Making a param delete action and running it *)

InitParam ==
  /\ fs = [dir |-> FALSE, file |-> AbsentFile]
  /\ hd = NilHub
  /\ head = [b \in Branches |-> "c1"]
  /\ last = NoCall
  /\ prev = Summary(NoCall)
  /\ uri = NoURI /\ baseURL = NilURL /\ pin = NoURI /\ pout = NotParsed
  /\ pd = NilParamDelete(NoErr)
  /\ pdOut = NoRun

\* a call of NewParamDelete
Create ==
  \E m \in Options :
    /\ pd' = NewParamDelete(m)
    /\ pdOut' = NoRun
    /\ UNCHANGED <<fs, hd, head, last, prev, uriVars>>

\* a call of Run on the action there is
RunDelete ==
  \E lo \in {"ok", "lookuperr", "nilcomponent", "deleteerr"} :
    /\ ~pd.nil
    /\ pdOut' = Run(pd, lo)
    /\ UNCHANGED <<fs, hd, head, last, prev, uriVars, pd>>

NextParam == Create \/ RunDelete

SpecParam == InitParam /\ [][NextParam]_vars

----------------------------------------------------------------------------
(* Properties of FetchRegistrySpec *)

IsFetch == last.op = "FetchRegistrySpec"

\* the cache file the last call started from held an inventory
HadCache == last.before.file.kind = "spec"

Cached == last.before.file.spec

\* the last call's CommitSHA1 returned a commit identifier
Resolved == Co(last.fault) = "ok"

FsCalls(trace) ==
  Count(trace, "load") + Count(trace, "MkdirAll") + Count(trace, "WriteFile")

Writes(trace) == Count(trace, "MkdirAll") + Count(trace, "WriteFile")

SameInventory(a, b) ==
  /\ ~a.nil /\ ~b.nil
  /\ a.Version = b.Version
  /\ DOMAIN a.Libraries = DOMAIN b.Libraries

AllStamped(spec, version) == \A n \in DOMAIN spec.Libraries : spec.Libraries[n] = version

Stamps(spec) == {spec.Libraries[n] : n \in DOMAIN spec.Libraries}

\* C1: a FetchRegistrySpec call that follows a successful FetchRegistrySpec
\* call, with a cache whose stamped revision is the revision the transport
\* resolves, makes one CommitSHA1 call, no Contents call and no cache write,
\* and returns the cached inventory.
C1_WarmCacheHit ==
  (IsFetch /\ prev.fetched /\ Resolved /\ HadCache /\ Cached.Version = last.sha)
    => /\ Count(last.trace, "CommitSHA1") = 1
       /\ Count(last.trace, "Contents") = 0
       /\ Writes(last.trace) = 0
       /\ fs = last.before
       /\ last.err = NoErr
       /\ SameInventory(last.spec, Cached)

C1_Witness ==
  /\ IsFetch /\ prev.fetched /\ Resolved /\ HadCache /\ Cached.Version = last.sha
  /\ last.ret = 210
  /\ DOMAIN last.spec.Libraries /= {}

\* C2: when the resolved revision differs from the cached inventory's stamped
\* revision, FetchRegistrySpec fetches the manifest at the resolved revision,
\* and the inventory it returns and the cache file it writes are stamped with
\* that revision.
C2_StaleRefetch ==
  (IsFetch /\ Resolved /\ HadCache /\ Cached.Version /= last.sha)
    => /\ \E i \in 1..Len(last.trace) :
            last.trace[i] = TransportCall("Contents", hd.regSpecRepoPath, last.sha, "Background")
       /\ last.err = NoErr =>
            /\ ~last.spec.nil
            /\ last.spec.Version = last.sha
            /\ fs.file.kind = "spec"
            /\ fs.file.spec.Version = last.sha

C2_Witness ==
  /\ IsFetch /\ Resolved /\ HadCache
  /\ Cached.Version \in Shas /\ Cached.Version /= last.sha
  /\ last.ret = 253
  /\ fs.file.spec.Version = last.sha

\* C3: when revision resolution fails or returns nothing and a cached
\* inventory with a stamped revision exists, FetchRegistrySpec returns that
\* inventory without error, every library at the configured reference, and
\* makes no Contents call.
C3_Fallback ==
  (IsFetch /\ ~Resolved /\ HadCache /\ Cached.Version /= "")
    => /\ last.err = NoErr
       /\ SameInventory(last.spec, Cached)
       /\ AllStamped(last.spec, last.ref)
       /\ Count(last.trace, "Contents") = 0

C3_Witness ==
  /\ IsFetch /\ ~Resolved /\ HadCache /\ Cached.Version /= ""
  /\ last.ret = 203
  /\ DOMAIN last.spec.Libraries /= {}
  /\ last.ref /= Cached.Version

\* C4: when revision resolution fails or returns nothing and there is no
\* usable cached inventory, FetchRegistrySpec returns an error and no
\* inventory; it never returns success with a nil inventory.
C4_NoCacheIsError ==
  /\ (IsFetch /\ ~Resolved /\ (~HadCache \/ Cached.Version = ""))
       => (last.err /= NoErr /\ last.spec.nil)
  /\ (IsFetch /\ last.err = NoErr) => ~last.spec.nil

\* C5: the filesystem changes only in a FetchRegistrySpec call whose revision
\* resolution and content fetch both succeeded; a call that fails before
\* leaves no cache directory behind.
C5_MkdirAfterFetch ==
  [][fs' /= fs =>
       /\ last'.op = "FetchRegistrySpec"
       /\ Co(last'.fault) = "ok" /\ Fo(last'.fault) = "ok"
       /\ last'.sha \in Shas
       /\ Count(last'.trace, "Contents") = 1
       /\ last'.ret \in {250, 253}]_vars

C5_Witness ==
  /\ IsFetch
  /\ ~last.before.dir /\ fs.dir
  /\ last.ret = 253

\* C7 as claimed: every inventory FetchRegistrySpec returns without error,
\* by fresh fetch, cache hit or fallback, has each library at the inventory's
\* own stamped revision.
C7_AllPathsStamped ==
  (IsFetch /\ last.err = NoErr /\ ~last.spec.nil)
    => AllStamped(last.spec, last.spec.Version)

\* C7: an inventory returned by a fresh fetch or a cache hit has each library
\* at the inventory's stamped revision; one returned by the fallback has each
\* library at the configured reference.
C7_ResolvedPathsStamped ==
  /\ (IsFetch /\ last.ret \in {210, 253})
       => (last.err = NoErr /\ ~last.spec.nil /\ last.spec.Version = last.sha
           /\ AllStamped(last.spec, last.spec.Version))
  /\ (IsFetch /\ last.ret = 203)
       => (last.err = NoErr /\ ~last.spec.nil /\ AllStamped(last.spec, last.ref))

C7_Witness ==
  /\ IsFetch /\ last.ret = 210
  /\ DOMAIN last.spec.Libraries /= {}
  /\ RawVersion \in Stamps(Cached)

\* the two outcomes C8 compares, from one cache: a run served from a
\* resolved revision and a run served by the fallback
ResolvedRuns ==
  { r \in { FetchRegistrySpec(fs, hd, head, "ok", Fo(flt), m, Po(flt))
            : flt \in FetchFaults, m \in RemoteSpecs } : r.ret \in {210, 253} }

FallbackRuns ==
  { r \in { FetchRegistrySpec(fs, hd, head, co, "ok", NilSpec, "ok")
            : co \in {"err", "empty"} } : r.ret = 203 }

\* C8 as claimed: from the same cache, a run served from a resolved revision
\* and a run served by the fallback return library version stamps that
\* differ, for every configured reference and every inventory.
C8_AlwaysDistinguishable ==
  Idle => \A a \in ResolvedRuns, b \in FallbackRuns : Stamps(a.spec) /= Stamps(b.spec)

\* C8: the stamps differ when both inventories list a library and the
\* configured reference is not itself the commit identifier it resolves to.
C8_Distinguishable ==
  Idle => \A a \in ResolvedRuns, b \in FallbackRuns :
            (Stamps(a.spec) /= {} /\ Stamps(b.spec) /= {} /\ hd.refSpec /= a.sha)
              => Stamps(a.spec) \cap Stamps(b.spec) = {}

C8_Witness ==
  /\ Idle /\ prev.fetched
  /\ \E a \in ResolvedRuns, b \in FallbackRuns :
       /\ a.ret = 210
       /\ Stamps(a.spec) = {a.sha} /\ Stamps(b.spec) = {hd.refSpec}
       /\ hd.refSpec /= a.sha

\* C9: a transport failure in a FetchRegistrySpec call, in revision resolution
\* or in the content fetch, with a usable cached inventory, is recovered: the
\* cached inventory is returned and no error.
C9_AnyFailureFallsBack ==
  (IsFetch /\ last.terr /\ HadCache /\ Cached.Version /= "")
    => (last.err = NoErr /\ SameInventory(last.spec, Cached))

----------------------------------------------------------------------------
(* Properties of ResolveLibrary *)

IsResolve == last.op = "ResolveLibrary"

\* C6: a ResolveLibrary call that returns without error returns a library
\* reference whose Version is a commit identifier CommitSHA1 gave in that
\* call, not empty and not a branch name; a call whose revision resolution
\* gives no identifier returns an error.
C6_VersionIsCommit ==
  /\ (IsResolve /\ last.err = NoErr)
       => /\ ~last.lib.nil
          /\ last.lib.Version /= ""
          /\ last.lib.Version \in Shas
          /\ last.lib.Version = last.sha
  /\ (IsResolve /\ ~Resolved) => last.err /= NoErr

\* C10: a transport error in a ResolveLibrary call makes it return an error
\* and no result; ResolveLibrary neither reads nor writes the cache.
C10_NoFallback ==
  IsResolve
    => /\ FsCalls(last.trace) = 0
       /\ fs = last.before
       /\ last.terr => (last.err /= NoErr /\ last.lib.nil /\ last.parts.nil)

C10_Witness ==
  /\ IsResolve /\ last.terr
  /\ Count(last.trace, "Contents") >= 3
  /\ last.before.file.kind = "spec"
  /\ last.err /= NoErr /\ last.lib.nil

----------------------------------------------------------------------------
(* Properties of the traversal *)

RECURSIVE Traversal(_, _, _)

\* the entries from entry i of a listing on, with all that is below them, in
\* the order resolveDir comes to them
Traversal(dirs, listing, i) ==
  IF i > Len(listing) THEN << >>
  ELSE LET e     == listing[i]
           below == IF e.type = "dir" /\ e.path \in DOMAIN dirs
                      THEN Traversal(dirs, dirs[e.path], 1) ELSE << >>
       IN  <<e>> \o below \o Traversal(dirs, listing, i + 1)

\* the tree of a library, with paths relative to the registry root
LibTree(partName) ==
  IF partName \in DOMAIN Listings(<<>>)
    THEN Traversal(Listings(<<>>), Listings(<<>>)[partName], 1) ELSE << >>

HasSubmodule(partName) ==
  \E i \in DOMAIN LibTree(partName) : LibTree(partName)[i].type = "submodule"

\* the entries of a library from its first submodule entry on
FromSubmodule(partName) ==
  LET t == LibTree(partName)
      k == CHOOSE i \in DOMAIN t :
             /\ t[i].type = "submodule"
             /\ \A j \in 1..(i - 1) : t[j].type /= "submodule"
  IN  {t[j].path : j \in k..Len(t)}

HandlerCalls(trace) == {i \in DOMAIN trace : trace[i].call \in {"onFile", "onDir"}}

\* the last call was a ResolveLibrary call that came to resolveDir
RanResolveDir == IsResolve /\ last.ret \notin {378, 385}

\* C11: when the tree of the library holds a submodule entry, at any depth,
\* a ResolveLibrary call that comes to resolveDir returns an error and no
\* result, and no handler is called for the submodule entry or for any entry
\* that comes after it in the traversal.
C11_SubmoduleAborts ==
  (RanResolveDir /\ HasSubmodule(last.part))
    => /\ last.err /= NoErr
       /\ last.lib.nil /\ last.parts.nil
       /\ \A i \in HandlerCalls(last.trace) :
            last.trace[i].path \notin FromSubmodule(last.part)

C11_Witness ==
  /\ RanResolveDir /\ last.part = deep
  /\ last.fault.kind = "none"
  /\ Count(last.trace, "onDir") = 1 /\ Count(last.trace, "onFile") = 1
  /\ last.ret = 393 /\ last.err /= NoErr

\* C12: every path a handler gets in a ResolveLibrary call is the path of an
\* entry of the library relative to the registry root: the repository path
\* without the registry path and the separator after it. A handler gets a
\* directory for onDir and a file for onFile, and never a repository path.
C12_HandlerPathsRebased ==
  IsResolve
    => \A i \in HandlerCalls(last.trace) :
         LET e == last.trace[i]
             t == LibTree(last.part)
         IN  /\ \E j \in DOMAIN t :
                  /\ t[j].path = e.path
                  /\ t[j].type = (IF e.call = "onFile" THEN "file" ELSE "dir")
             /\ (e.path = << >> \/ e.path[1] /= "/")
             /\ hd.regRepoPath /= << >> => ~HasPrefix(e.path, hd.regRepoPath \o <<"/">>)

C12_Witness ==
  /\ IsResolve /\ last.err = NoErr
  /\ hd.regRepoPath = regDir /\ last.part = pkg
  /\ \E i \in HandlerCalls(last.trace) :
       /\ last.trace[i].call = "onFile"
       /\ last.trace[i].path = Join2(Join2(pkg, <<"l">>), <<"a">>)
  /\ \E i \in DOMAIN last.trace :
       /\ last.trace[i].call = "Contents"
       /\ last.trace[i].path = Join2(regDir, Join2(Join2(pkg, <<"l">>), <<"a">>))

----------------------------------------------------------------------------
(* Properties of parseGitHubURI *)

Parsed == pout /= NotParsed

\* the URI begins as a GitHub URI must, with or without a scheme
AcceptedPrefix(u) == u.scheme \in {"", "http", "https"} /\ GitHubHost(u.host)

IsPublic(u) == AcceptedPrefix(u) /\ HasSuffixGitHubCom(u.host)

\* an enterprise URI with its "repos" anchor and no query or one ref value
IsEnterprise(u) ==
  /\ AcceptedPrefix(u) /\ ~HasSuffixGitHubCom(u.host)
  /\ ReposIndex(u.path) /= -1
  /\ \/ u.query = << >>
     \/ Len(u.query) = 1 /\ u.query[1][1] = "ref"

\* the index, counted from 0, of the component before the organisation
Anchor(u) == IF HasSuffixGitHubCom(u.host) THEN 0 ELSE ReposIndex(u.path)

\* the components without the blank one a trailing separator leaves
Trimmed(components) ==
  IF components /= << >> /\ components[Len(components)] = ""
    THEN SubSeq(components, 1, Len(components) - 1) ELSE components

\* only the first component is blank
NoBlanks(components) == \A i \in 2..Len(components) : components[i] /= ""

\* the URI points at the root of a repository: host/org/repo
IsRootURI(u) ==
  /\ (IsPublic(u) /\ u.query = << >>) \/ IsEnterprise(u)
  /\ Len(u.path) = Anchor(u) + 3
  /\ NoBlanks(u.path)

\* the URI points at a directory: host/org/repo/tree/<ref>/<path> or, for an
\* enterprise, .../repos/org/repo/contents/<path>, with or without a
\* trailing separator
IsDirURI(u) ==
  LET t == Trimmed(u.path)
  IN  /\ NoBlanks(t)
      /\ \/ /\ IsPublic(u) /\ u.query = << >>
            /\ Len(t) >= 5 /\ At(t, 3) = "tree"
         \/ /\ IsEnterprise(u)
            /\ Len(t) >= Anchor(u) + 4 /\ At(t, Anchor(u) + 3) = "contents"

\* the URI points at a manifest file: host/org/repo/blob/<ref>/<path>/registry.yaml
IsBlobURI(u) ==
  /\ IsPublic(u) /\ u.query = << >>
  /\ NoBlanks(u.path)
  /\ Len(u.path) >= 6 /\ At(u.path, 3) = "blob"
  /\ u.path[Len(u.path)] = "registry.yaml"

\* the registry directory a directory URI names
DirOf(u) ==
  LET t == Trimmed(u.path)
  IN  JoinPath(Slice(t, IF IsPublic(u) THEN 5 ELSE Anchor(u) + 4, Len(t)))

WithSlash(u) == [u EXCEPT !.path = Append(Trimmed(u.path), "")]

WithoutSlash(u) == [u EXCEPT !.path = Trimmed(u.path)]

\* paths of files relative to a registry directory
RelPaths == {pkg, Join2(pkg, partsYAMLFile), Join2(regDir, pkg)}

\* the path in the repository of p below the directory d
RepoPath(d, p) == IF d = << >> THEN p ELSE Join2(d, p)

\* C13: for a directory URI, with or without a trailing separator, that
\* names the registry directory d, parseGitHubURI gives a descriptor with
\* which rebaseToRoot takes d/p back to p for every relative path p, and the
\* URI with and without the trailing separator give the same descriptor.
C13_RoundTrip ==
  (Parsed /\ IsDirURI(pin))
    => /\ pout.kind = "ok"
       /\ \A p \in RelPaths : rebaseToRoot(pout.hd, RepoPath(DirOf(pin), p)) = p
       /\ parseGitHubURI(WithSlash(pin)) = parseGitHubURI(WithoutSlash(pin))

\* the URI is malformed: a host that is not GitHub's, a public URI with a
\* query, an enterprise URI with a query that is not one ref value or
\* without "repos", fewer than three components after the anchor, or a
\* public URI that goes on after the repository with neither tree nor blob
\* and a manifest file name
Malformed(u) ==
  \/ ~AcceptedPrefix(u)
  \/ IsPublic(u) /\ u.query /= << >>
  \/ AcceptedPrefix(u) /\ ~HasSuffixGitHubCom(u.host) /\ ~IsEnterprise(u)
  \/ AcceptedPrefix(u) /\ Anchor(u) /= -1 /\ Len(u.path) < Anchor(u) + 3
  \/ /\ IsPublic(u) /\ Len(u.path) > 3
     /\ At(u.path, 3) /= "tree"
     /\ ~(At(u.path, 3) = "blob" /\ u.path[Len(u.path)] = "registry.yaml")

\* C14: for a malformed URI parseGitHubURI returns an error and a nil
\* descriptor.
C14_MalformedIsError ==
  (Parsed /\ Malformed(pin)) => (pout.kind = "err" /\ pout.hd.nil)

\* the URI has one of the accepted forms
WellFormed(u) == IsRootURI(u) \/ IsDirURI(u) \/ IsBlobURI(u)

\* C15: for a URI of an accepted form (public root, public tree, public
\* blob, enterprise with and without ref) parseGitHubURI ends normally and
\* returns a descriptor and no error, the same for the same URI.
C15_WellFormedParses ==
  (Parsed /\ WellFormed(pin))
    => /\ pout.kind = "ok" /\ ~pout.hd.nil
       /\ pout = parseGitHubURI(pin)

\* C16: for a URI that points at the root of a repository the descriptor has
\* the default branch as reference, an empty registry path and the manifest
\* file name as manifest path.
C16_RootDefaults ==
  (Parsed /\ IsRootURI(pin))
    => /\ pout.kind = "ok"
       /\ pout.hd.refSpec = defaultGitHubBranch
       /\ pout.hd.regRepoPath = << >>
       /\ pout.hd.regSpecRepoPath = registryYAMLFile

NoSlashAtEnds(path) == path = << >> \/ (path[1] /= "/" /\ path[Len(path)] /= "/")

\* C17: in every descriptor parseGitHubURI returns the manifest path is the
\* registry path joined with the manifest file name (the file name alone
\* when the registry path is empty), and neither path begins or ends with a
\* separator.
C17_PathsInvariant ==
  (Parsed /\ pout.kind = "ok")
    => /\ pout.hd.regSpecRepoPath = RepoPath(pout.hd.regRepoPath, registryYAMLFile)
       /\ NoSlashAtEnds(pout.hd.regRepoPath)
       /\ NoSlashAtEnds(pout.hd.regSpecRepoPath)

\* C18: for an enterprise URI, at the root of a repository or with a
\* contents path, the reference of the descriptor is the one ref value of
\* the query when there is one and empty when there is no query; a public
\* URI with a query is rejected.
C18_EnterpriseRef ==
  /\ (Parsed /\ IsEnterprise(pin) /\ (IsRootURI(pin) \/ IsDirURI(pin)))
       => /\ pout.kind = "ok"
          /\ pout.hd.refSpec = (IF pin.query = << >> THEN "" ELSE pin.query[1][2])
  /\ (Parsed /\ IsPublic(pin) /\ pin.query /= << >>) => pout.kind = "err"

----------------------------------------------------------------------------
(* Properties of SetURI *)

\* the descriptor of the registry is what parseGitHubURI gives for its URI
DescriptorOfURI(h, u) ==
  parseGitHubURI(u).kind = "ok" /\ h = parseGitHubURI(u).hd

\* C19: after a SetURI call that returns no error the descriptor is
\* parseGitHubURI of the argument and the configured URI is the argument;
\* after a SetURI call that fails both are as before; so after every
\* sequence of NewGitHub and SetURI calls the descriptor is parseGitHubURI of
\* the configured URI.
C19_DescriptorFollowsURI ==
  [][ /\ DescriptorOfURI(hd, uri) /\ DescriptorOfURI(hd', uri')
      /\ (last'.op = "SetURI" /\ pout'.kind = "ok")
           => (uri' = pin' /\ hd' = parseGitHubURI(pin').hd)
      /\ (last'.op = "SetURI" /\ pout'.kind /= "ok")
           => (uri' = uri /\ hd' = hd) ]_vars

C19_Witness ==
  /\ last.op = "SetURI" /\ pout.kind = "ok"
  /\ uri = pin /\ hd = pout.hd
  /\ hd.regRepoPath = regDir /\ hd.refSpec = "dev"
  /\ baseURL /= NilURL

----------------------------------------------------------------------------
(* Properties of a cache file that does not load *)

\* the cache file the last call started from was there and did not decode
HadCorruptCache == last.before.file.kind = "corrupt"

\* the call fetched the manifest of the registry at the commit it resolved
FetchedAt(trace, path, sha) ==
  \E i \in DOMAIN trace :
    trace[i].call = "Contents" /\ trace[i].path = path /\ trace[i].ref = sha

\* C20: a cache file that does not load is not fatal to FetchRegistrySpec:
\* when CommitSHA1 gives a commit the call does not take the cache-hit path
\* or the fallback, it fetches the manifest at that commit, and when the
\* fetch and the write succeed it writes the cache file over and returns the
\* inventory without error.
C20_CorruptCacheRefetches ==
  (IsFetch /\ HadCorruptCache /\ Resolved)
    => /\ last.ret \notin {197, 203, 210}
       /\ FetchedAt(last.trace, hd.regSpecRepoPath, last.sha)
       /\ last.sha \in Shas
       /\ last.fault.kind = "none"
            => /\ last.err = NoErr /\ ~last.spec.nil
               /\ last.spec.Version = last.sha
               /\ fs = [dir |-> TRUE, file |-> SpecFile(last.spec)]

C20_Witness ==
  /\ IsFetch /\ HadCorruptCache /\ Resolved
  /\ last.fault.kind = "none"
  /\ last.ret = 253 /\ last.err = NoErr
  /\ fs.file.kind = "spec" /\ fs.file.spec.Version = last.sha

----------------------------------------------------------------------------
(* Properties of the calls a ResolveLibrary call makes *)

Pos(partName, path) ==
  LET t == LibTree(partName)
  IN  IF \E k \in DOMAIN t : t[k].path = path
        THEN CHOOSE k \in DOMAIN t : t[k].path = path ELSE 0

\* C22: onDir of a directory comes before the Contents call that lists it
\* and before every handler call for a path below it, and the traversal is
\* depth-first: handler calls come in the order of the traversal, a
\* directory, then all that is below it, then what is listed after it.
C22_MkdirBeforePopulate ==
  IsResolve
    => /\ \A i \in HandlerCalls(last.trace) :
            last.trace[i].call = "onDir"
              => \A j \in DOMAIN last.trace :
                   \/ /\ last.trace[j].call = "Contents"
                      /\ rebaseToRoot(hd, last.trace[j].path) = last.trace[i].path
                   \/ /\ j \in HandlerCalls(last.trace)
                      /\ HasPrefix(last.trace[j].path, last.trace[i].path \o <<"/">>)
                   => i < j
       /\ \A i, j \in HandlerCalls(last.trace) :
            i < j => /\ Pos(last.part, last.trace[i].path) > 0
                     /\ Pos(last.part, last.trace[i].path) < Pos(last.part, last.trace[j].path)

C22_Witness ==
  /\ IsResolve /\ last.err = NoErr /\ last.part = mix
  /\ hd.regRepoPath = regDir
  /\ \E i, j, k \in HandlerCalls(last.trace) :
       /\ i < j /\ j < k
       /\ last.trace[i] = Event("onDir", Join2(mix, <<"d">>), "")
       /\ last.trace[j] = Event("onFile", Join2(Join2(mix, <<"d">>), <<"b">>), "")
       /\ last.trace[k] = Event("onFile", Join2(mix, partsYAMLFile), "")

\* what the last ResolveLibrary call does when nothing fails; its libRefSpec
\* is empty when its CommitSHA1 call has a timeout, as only resolveLatestSHA
\* makes such a call
FaultFree ==
  ResolveLibrary(hd, head, last.part, << >>,
                 IF last.trace[1].ctx = "WithTimeout" THEN "" ELSE last.trace[1].ref, "ok",
                 [at |-> 0, kind |-> "api", hat |-> 0], "ok")

\* the at-th Contents call of the last call failed in the API
TransportFailed ==
  last.fault.kind = "api" /\ Count(last.trace, "Contents") >= last.fault.at

\* the at-th handler call of the last call returned an error
HandlerFailed ==
  last.fault.kind = "handler"
    /\ Cardinality(HandlerCalls(last.trace)) >= last.fault.at

\* C23: when a Contents call of resolveDir or a handler returns an error in
\* a ResolveLibrary call, the call that failed is the last call made, at
\* every level; ResolveLibrary returns an error and no result; and the calls
\* made before are the calls of a run without a failure, none taken back.
C23_AbortAtOnce ==
  (IsResolve /\ (TransportFailed \/ HandlerFailed))
    => /\ last.err /= NoErr /\ last.lib.nil /\ last.parts.nil
       /\ TransportFailed
            => /\ Count(last.trace, "Contents") = last.fault.at
               /\ last.trace[Len(last.trace)].call = "Contents"
       /\ HandlerFailed
            => /\ Cardinality(HandlerCalls(last.trace)) = last.fault.at
               /\ Len(last.trace) \in HandlerCalls(last.trace)
       /\ Len(last.trace) <= Len(FaultFree.trace)
       /\ last.trace = SubSeq(FaultFree.trace, 1, Len(last.trace))

C23_Witness ==
  /\ IsResolve /\ HandlerFailed /\ last.part = mix
  /\ last.fault.at = 2 /\ last.ret = 393
  /\ Count(last.trace, "onDir") = 1 /\ Count(last.trace, "onFile") = 1
  /\ Count(last.trace, "Contents") = 3
  /\ Len(last.trace) < Len(FaultFree.trace)

\* C24: every CommitSHA1 and Contents call of FetchRegistrySpec,
\* ResolveLibrary and ResolveLibrarySpec is made under a context with a
\* timeout.
C24_EveryCallHasTimeout ==
  \A i \in DOMAIN last.trace :
    last.trace[i].call \in {"CommitSHA1", "Contents"} => last.trace[i].ctx = "WithTimeout"

----------------------------------------------------------------------------
(* Properties of the cache file *)

\* the cache files there are before the first call
FoundFiles == {SpecFile(LegacySpec), SpecFile(ForeignSpec)}

\* C25: a cache file that FetchRegistrySpec has written records a commit
\* identifier CommitSHA1 gave as its Version and has that identifier as the
\* version of every library; the fallback and the cache-hit path write
\* nothing.
C25_CacheFileStamped ==
  /\ (fs.file.kind = "spec" /\ fs.file \notin FoundFiles)
       => /\ fs.file.spec.Version \in Shas
          /\ AllStamped(fs.file.spec, fs.file.spec.Version)
  /\ (IsFetch /\ fs /= last.before /\ fs.file.kind = "spec")
       => /\ fs.file.spec.Version = last.sha
          /\ Resolved /\ last.ret = 253
  /\ (IsFetch /\ last.ret \in {197, 203, 210})
       => (Writes(last.trace) = 0 /\ fs = last.before)

C25_Witness ==
  /\ IsFetch /\ last.ret = 203
  /\ fs.file.kind = "spec" /\ fs.file \notin FoundFiles
  /\ DOMAIN fs.file.spec.Libraries /= {}
  /\ hd.refSpec = "master"
  /\ Stamps(last.spec) = {"master"}
  /\ Stamps(fs.file.spec) = {fs.file.spec.Version}

----------------------------------------------------------------------------
(* Properties of the API root of the transport *)

\* C26: after every sequence of NewGitHub and SetURI calls the API root of
\* the transport client, which client() takes for every CommitSHA1 and
\* Contents call, is the baseURL of the descriptor of the registry.
C26_ApiRootFollowsDescriptor == baseURL = hd.baseURL

----------------------------------------------------------------------------
(* Properties of the param delete action *)

\* the delete operations among the calls of the last Run
Deletes ==
  {i \in DOMAIN pdOut.calls :
     pdOut.calls[i].fn \in {"deleteEnvFn", "deleteEnvGlobalFn", "Module.DeleteParam",
                            "Component.DeleteParam"}}

\* the delete operation the fields of the action choose
Chosen(p) ==
  IF p.envName /= "" /\ p.name /= ""
    THEN PdCall("deleteEnvFn", p.envName, p.name, p.rawPath, << >>)
  ELSE IF p.envName /= ""
    THEN PdCall("deleteEnvGlobalFn", p.envName, "", p.rawPath, << >>)
  ELSE IF p.global
    THEN PdCall("Module.DeleteParam", "", p.name, << >>, Split(p.rawPath, "."))
  ELSE PdCall("Component.DeleteParam", "", p.name, << >>, Split(p.rawPath, "."))

\* C27 as stated: there is no action with an environment and the global
\* flag, and every Run makes exactly one delete call, the one its fields
\* choose.
C27_ExactlyOneDelete ==
  /\ ~pd.nil => ~(pd.envName /= "" /\ pd.global)
  /\ pdOut.ran
       => /\ Cardinality(Deletes) = 1
          /\ \A i \in Deletes : pdOut.calls[i] = Chosen(pd)

\* C27: there is no action with an environment and the global flag; a Run
\* makes at most one delete call, the one its fields choose with the path
\* split at "." for a module or a component, and makes none only when the
\* module or the component is not found, and then it returns an error.
C27_OneDeleteUnlessNotFound ==
  /\ ~pd.nil => ~(pd.envName /= "" /\ pd.global)
  /\ pdOut.ran
       => /\ Cardinality(Deletes) <= 1
          /\ \A i \in Deletes : pdOut.calls[i] = Chosen(pd) /\ i = Len(pdOut.calls)
          /\ Deletes = {}
               => /\ pd.envName = ""
                  /\ pdOut.calls[1].fn \in {"getModuleFn", "resolvePathFn"}
                  /\ pdOut.err /= NoErr

C27_Witness ==
  /\ ~pd.nil /\ pdOut.ran /\ pdOut.err = NoErr
  /\ pd.envName = "" /\ ~pd.global /\ pd.name = "mod.comp"
  /\ Cardinality(Deletes) = 1
  /\ pdOut.calls[2].path = << <<"a">>, <<"b">>, <<"c">> >>

====
